---- MODULE Spec2Model ----
(***************************************************************************)
(* Autodeployment Chat System: the deployment pipeline of src/main.py      *)
(* (process_deployment and the in-memory deployment_status store), the     *)
(* provisioning and deployment backends it drives, and the status / log    *)
(* readers, as they run on the single asyncio event loop of the server.    *)
(*                                                                         *)
(* Scheduling model.  Every coroutine of the server runs on one event-loop *)
(* thread.  A coroutine keeps the thread until it awaits something that    *)
(* really suspends (an asyncio subprocess, asyncio.sleep).  `running` is   *)
(* the deployment whose coroutine holds the thread inside a synchronous    *)
(* external call (0 when the loop is free): while it is non-zero no other  *)
(* coroutine and no request handler can take a step.                       *)
(***************************************************************************)
EXTENDS Integers, Sequences, FiniteSets, TLC

\* ---------------------------------------------------------------- bounds
MaxDeployments == 2      \* deployments created in the concurrent workload
MaxProbeDur == 25        \* longest duration of one curl probe that is modelled
MaxTransient == 1        \* failed attempts per wait loop where failures are transient
MaxFiles == 3            \* source files met in the tree walk of a checkout

\* ------------------------------------------------------ program constants
VerifyTimeout == 300     \* _verify_deployment(timeout=300)
VerifySleep == 30        \* asyncio.sleep(30) between probes
VmTimeout == 300         \* _wait_for_vm_ready(timeout=300)
VmSleep == 10            \* asyncio.sleep(10) between SSH attempts
ConnectTimeout == 10     \* curl --connect-timeout 10
SshTimeout == 10         \* ssh.connect(timeout=10)

Ids == 1..MaxDeployments
None == "None"
NonePort == 0

Strategies == <<"vm", "serverless", "container", "kubernetes">>
StrategySet == {Strategies[i] : i \in 1..Len(Strategies)}

\* ------------------------------------------------------------ the store
OptionalKeys == {"message", "deployment_url", "infrastructure", "end_time"}
NoUrl == [host |-> None, port |-> NonePort]

\* the dict written by deploy_application; `keys` are the optional keys the
\* dict has acquired so far (a Python dict has no entry for the others)
NewRecord ==
  [status |-> "initiated", steps |-> <<>>, logs |-> <<>>, error |-> None,
   keys |-> {}, message |-> None, deployment_url |-> NoUrl,
   infrastructure |-> {}]

\* log_step: append one entry to logs and its message to steps of record id
log_step_shared(store, id, message) ==
  [x \in DOMAIN store |->
     [store[x] EXCEPT !.logs = Append(@, [message |-> message]),
                      !.steps = Append(@, message)]]

log_step_prepend(store, id, message) ==
  [store EXCEPT ![id].logs = <<[message |-> message]>> \o @,
                ![id].steps = <<message>> \o @]

log_step(store, id, message) ==
  [store EXCEPT ![id].logs = Append(@, [message |-> message]),
                ![id].steps = Append(@, message)]

update_deployment_status_unlogged(store, id, status, message) ==
  [store EXCEPT ![id].status = status,
                ![id].message = message,
                ![id].keys = @ \cup {"message"}]

update_deployment_status_swapped(store, id, status, message) ==
  log_step([store EXCEPT ![id].status = message,
                         ![id].message = status,
                         ![id].keys = @ \cup {"message"}],
           id, message)

update_deployment_status(store, id, status, message) ==
  log_step([store EXCEPT ![id].status = status,
                         ![id].message = message,
                         ![id].keys = @ \cup {"message"}],
           id, message)

\* ------------------------------------------------- requirement extraction
\* A description is modelled by the set of pattern words it contains; a
\* Python dict is a function whose domain is the set of keys it has.
EmptyDict == [k \in {} |-> None]
DictGet(d, k, default) == IF k \in DOMAIN d THEN d[k] ELSE default
SetDefault(d, k, v) == IF k \in DOMAIN d THEN d ELSE d @@ (k :> v)
Has(description, words) == description \cap words # {}

_extract_basic_patterns(description) ==
  LET provider ==
        IF Has(description, {"aws", "amazon"}) THEN ("cloud_provider" :> "aws")
        ELSE IF Has(description, {"gcp", "google"}) THEN ("cloud_provider" :> "gcp")
        ELSE IF Has(description, {"azure", "microsoft"}) THEN ("cloud_provider" :> "azure")
        ELSE EmptyDict
      preference ==
        IF Has(description, {"serverless", "lambda", "function"})
          THEN ("deployment_preference" :> "serverless")
        ELSE IF Has(description, {"kubernetes", "k8s", "container"})
          THEN ("deployment_preference" :> "kubernetes")
        ELSE IF Has(description, {"vm", "ec2"})
          THEN ("deployment_preference" :> "vm")
        ELSE EmptyDict
      environment ==
        IF Has(description, {"development", "dev", "test"}) THEN ("environment" :> "development")
        ELSE IF Has(description, {"staging", "stage"}) THEN ("environment" :> "staging")
        ELSE IF Has(description, {"production", "prod", "live"}) THEN ("environment" :> "production")
        ELSE EmptyDict
      scaling ==
        IF Has(description, {"scale", "load"}) THEN ("scaling" :> "high")
        ELSE IF Has(description, {"minimal", "simple", "basic"}) THEN ("scaling" :> "minimal")
        ELSE EmptyDict
  IN provider @@ preference @@ environment @@ scaling

\* The reply of the chat-completion call: "error" (the call or json.loads
\* raised), "list" (valid JSON that is not an object) or "dict".
_ai_parse_description(reply) ==
  IF reply.kind = "error" THEN [kind |-> "dict", value |-> EmptyDict] ELSE reply

_fallback_parse(description) ==
  [cloud_provider |-> "aws", deployment_preference |-> "auto",
   environment |-> "production", scaling |-> "minimal",
   parsing_method |-> "fallback"]

parse_requirements(description, reply) ==
  LET basic_info == _extract_basic_patterns(description)
      ai_parsed == _ai_parse_description(reply)
  IN IF ai_parsed.kind # "dict"
       THEN _fallback_parse(description)   \* {**basic_info, **ai_parsed} raises
       ELSE SetDefault(SetDefault(SetDefault(ai_parsed.value @@ basic_info,
                 "cloud_provider", "aws"), "environment", "production"),
                 "scaling", "minimal")

\* ------------------------------------------------------- strategy engine
\* A score is a Python float.  Every score is a sum of multiples of 0.1, so
\* a float is written <<k, u>>: the double nearest to k/10, moved by u units
\* in the last place.  FAdd is IEEE-754 double addition of c/10 on the
\* values the scoring rules can produce.
FAdd ==
  [v \in (-5..13) \X (-2..2), c \in -5..5 |->
     CASE v = <<2, 0>> /\ c = -3 -> <<-1, 2>>
       [] v = <<2, 0>> /\ c = 4 -> <<6, 1>>
       [] v = <<4, 0>> /\ c = -5 -> <<-1, 2>>
       [] v = <<4, 0>> /\ c = -3 -> <<1, 2>>
       [] v = <<4, 0>> /\ c = 2 -> <<6, 1>>
       [] v = <<6, 0>> /\ c = -5 -> <<1, -2>>
       [] v = <<6, 1>> /\ c = -3 -> <<3, 2>>
       [] v = <<6, 1>> /\ c = 1 -> <<7, 1>>
       [] v = <<6, 1>> /\ c = 2 -> <<8, 0>>
       [] v = <<7, 0>> /\ c = -5 -> <<2, -2>>
       [] v = <<7, 0>> /\ c = 1 -> <<8, -1>>
       [] v = <<7, 0>> /\ c = 2 -> <<9, -1>>
       [] v = <<8, -1>> /\ c = -5 -> <<3, -1>>
       [] v = <<9, -1>> /\ c = -5 -> <<4, -2>>
       [] v = <<9, -1>> /\ c = 1 -> <<10, -1>>
       [] v = <<9, -1>> /\ c = 2 -> <<11, -1>>
       [] v = <<10, -1>> /\ c = -5 -> <<5, -2>>
       [] v = <<11, -1>> /\ c = 1 -> <<12, 0>>
       [] OTHER -> <<v[1] + c, v[2]>>]
FLess(a, b) == a[1] < b[1] \/ (a[1] = b[1] /\ a[2] < b[2])
FMax(a, b) == IF FLess(a, b) THEN b ELSE a
FZero == <<0, 0>>
TermUnconditional(cond, c) == c

\* `if cond: score += c/10`, and the running sum of such statements
Term(cond, c) == IF cond THEN c ELSE 0
FSum(terms) ==
  LET acc[i \in 0..Len(terms)] ==
        IF i = 0 THEN FZero ELSE FAdd[acc[i - 1], terms[i]]
  IN acc[Len(terms)]

_calculate_strategy_score(strategy, requirements, repo_analysis) ==
  LET language == repo_analysis.language
      framework == repo_analysis.framework
      services == Len(repo_analysis.required_services)
      scaling == DictGet(requirements, "scaling", "minimal")
      environment == DictGet(requirements, "environment", "production")
      terms ==
        CASE strategy = "vm" ->
               <<5,
                 Term(language \in {"python", "java"}, 2),
                 Term(services > 0, 3),
                 Term(framework \in {"django", "spring"}, 2),
                 Term(scaling = "minimal", 1)>>
          [] strategy = "serverless" ->
               <<3,
                 Term(framework \in {"flask", "fastapi", "express"}, 4),
                 Term(services = 0, 3),
                 Term(scaling = "minimal", 2),
                 Term(language = "nodejs", 1),
                 Term(services > 1, -5)>>
          [] strategy = "container" ->
               <<4,
                 Term(repo_analysis.dockerfile_present, 3),
                 Term(framework \in {"fastapi", "express", "flask"}, 2),
                 Term(scaling \in {"moderate", "high"}, 2),
                 Term(language \in {"python", "nodejs"}, 1)>>
          [] strategy = "kubernetes" ->
               <<2,
                 Term(scaling = "high", 4),
                 Term(environment = "production", 2),
                 Term(services > 2, 2),
                 Term(scaling = "minimal", -3)>>
          [] OTHER -> <<>>
  IN FMax(FSum(terms), FZero)

\* max(strategy_scores, key=strategy_scores.get): the first key, in the
\* insertion order of deployment_strategies, whose score no key exceeds
BestStrategy(requirements, repo_analysis) ==
  LET sc(i) == _calculate_strategy_score(Strategies[i], requirements, repo_analysis)
      best == CHOOSE i \in 1..Len(Strategies) :
                /\ \A j \in 1..Len(Strategies) : ~FLess(sc(i), sc(j))
                /\ \A j \in 1..(i - 1) : FLess(sc(j), sc(i))
  IN Strategies[best]

_get_default_port(repo_analysis) ==
  LET framework == repo_analysis.framework
      language == repo_analysis.language
  IN CASE framework = "flask" -> 5000
       [] framework \in {"django", "fastapi"} -> 8000
       [] framework = "express" -> 3000
       [] framework = "spring" -> 8080
       [] framework = "streamlit" -> 8501
       [] OTHER -> IF language = "python" THEN 8000
                   ELSE IF language = "nodejs" THEN 3000 ELSE 8080

\* deployment_engine.py 264-296: the descriptors are stored under the keys
\* 'database' and 'cache'; a service of a type outside the table adds nothing
ServiceSlot(service) ==
  CASE service \in {"postgresql", "mysql", "mongodb"} -> "database"
    [] service = "redis" -> "cache"
    [] OTHER -> None
_generate_services_config(required_services) ==
  LET services_config[i \in 0..Len(required_services)] ==
        IF i = 0 THEN EmptyDict
        ELSE IF ServiceSlot(required_services[i]) = None
        THEN services_config[i - 1]
        ELSE (ServiceSlot(required_services[i]) :>
                [type |-> required_services[i]]) @@ services_config[i - 1]
  IN services_config[Len(required_services)]

\* deployment_engine.py 298-315: repo_analysis.get('port', default) is the
\* value of the key when the profile has the key, None included
_generate_networking_config(strategy, repo_analysis) ==
  [application_port |-> IF "port" \in DOMAIN repo_analysis
                        THEN repo_analysis.port
                        ELSE _get_default_port(repo_analysis),
   health_check_path |-> IF strategy # "serverless" THEN "/" ELSE None,
   load_balancer |-> strategy \in {"container", "kubernetes"},
   ssl_certificate |-> strategy \in {"container", "kubernetes"}]

_generate_deployment_config(strategy, requirements, repo_analysis) ==
  [strategy |-> strategy,
   cloud_provider |-> DictGet(requirements, "cloud_provider", "aws"),
   environment |-> DictGet(requirements, "environment", "production"),
   application |->
     [language |-> repo_analysis.language,
      framework |-> repo_analysis.framework,
      \* repo_analysis.get('port', default): the key is always present
      port |-> IF "port" \in DOMAIN repo_analysis THEN repo_analysis.port
               ELSE _get_default_port(repo_analysis),
      start_commands |-> repo_analysis.start_commands],
   services |-> _generate_services_config(repo_analysis.required_services),
   networking |-> _generate_networking_config(strategy, repo_analysis)]

determine_strategy_unchecked(requirements, repo_analysis) ==
  LET best_strategy == BestStrategy(requirements, repo_analysis)
      user_preference == DictGet(requirements, "deployment_preference", None)
      chosen == IF user_preference # None /\ user_preference # "auto"
                THEN user_preference ELSE best_strategy
  IN _generate_deployment_config(chosen, requirements, repo_analysis)

determine_strategy_scores_only(requirements, repo_analysis) ==
  _generate_deployment_config(BestStrategy(requirements, repo_analysis),
                              requirements, repo_analysis)

determine_strategy(requirements, repo_analysis) ==
  LET best_strategy == BestStrategy(requirements, repo_analysis)
      user_preference == DictGet(requirements, "deployment_preference", None)
      chosen == IF user_preference # None /\ user_preference # "auto"
                   /\ user_preference \in StrategySet
                THEN user_preference ELSE best_strategy
  IN _generate_deployment_config(chosen, requirements, repo_analysis)

\* ------------------------------------------------------------- workloads
\* Repository profiles the analyser hands to the engine in the pipeline runs.
FlaskProfile ==
  [language |-> "python", framework |-> "flask", required_services |-> <<>>,
   dockerfile_present |-> FALSE, port |-> 5000,
   start_commands |-> <<"python app.py">>]
SpringProfile ==
  [language |-> "java", framework |-> "spring",
   required_services |-> <<"postgresql">>,
   dockerfile_present |-> FALSE, port |-> NonePort,
   start_commands |-> <<"java -jar target/*.jar">>]
ExpressProfile ==
  [language |-> "nodejs", framework |-> "express", required_services |-> <<>>,
   dockerfile_present |-> TRUE, port |-> 3000,
   start_commands |-> <<"npm start">>]
BareProfile ==
  [language |-> "unknown", framework |-> None, required_services |-> <<>>,
   dockerfile_present |-> FALSE, port |-> NonePort, start_commands |-> <<>>]
NoProfile ==
  [language |-> None, framework |-> None, required_services |-> <<>>,
   dockerfile_present |-> FALSE, port |-> NonePort, start_commands |-> <<>>,
   unset |-> TRUE]

UnknownId == 0

ErrorReply == [kind |-> "error", value |-> EmptyDict]
ListReply == [kind |-> "list", value |-> EmptyDict]
AutoReply == [kind |-> "dict", value |-> ("deployment_preference" :> "auto")]

\* A workload fixes what the environment may do in a run: how many
\* deployments are requested, the requests and repositories they carry, how
\* long a probe may take, and whether an endpoint may keep failing
\* (persistent) or fails at most MaxTransient times in a wait loop, and for
\* which deployments the external calls may fail at all (faulty), and the
\* ids that clients ask the status and the logs of (polled).
ConcurrentWorkload ==
  [name |-> "concurrent", ids |-> Ids,
   descriptions |-> {{}},
   replies |-> {ErrorReply},
   profiles |-> {SpringProfile},
   durations |-> {0},
   persistent |-> FALSE, faulty |-> {1}, polled |-> {1, UnknownId}]
RequestWorkload ==
  [name |-> "requests", ids |-> {1},
   descriptions |-> {{}, {"gcp"}, {"container"}, {"scale"}},
   replies |-> {ErrorReply, ListReply, AutoReply},
   profiles |-> {FlaskProfile, SpringProfile, ExpressProfile, BareProfile},
   durations |-> {0},
   persistent |-> FALSE, faulty |-> {1}, polled |-> {1, UnknownId}]
TimingWorkload ==
  [name |-> "timing", ids |-> {1},
   descriptions |-> {{}},
   replies |-> {ErrorReply},
   profiles |-> {FlaskProfile, SpringProfile},
   durations |-> {0, ConnectTimeout, MaxProbeDur},
   persistent |-> TRUE, faulty |-> {1}, polled |-> {1}]
Workloads == {ConcurrentWorkload, RequestWorkload, TimingWorkload}


\* ------------------------------------------------------------------ state
VARIABLES
  deployment_status,  \* main.py: the global dict id -> record
  log_calls,          \* per id, the number of log_step calls made so far
  pc,                 \* per id, where the process_deployment task stands
  running,            \* the id whose coroutine holds the event-loop thread, or 0
  request,            \* per id, the description of the DeploymentRequest
  frame,              \* per id, the local variables of process_deployment
  obs,                \* per id, what has happened to the deployment so far
  response,           \* the HTTP response sent by the step just taken, if any
  workload,           \* the workload of the run
  call                \* a direct call of one method: its arguments and result

vars == <<deployment_status, log_calls, pc, running, request, frame, obs,
          response, workload, call>>

NoConfig ==
  [strategy |-> None, cloud_provider |-> None, environment |-> None,
   application |-> [language |-> None, framework |-> None,
                    port |-> NonePort, start_commands |-> <<>>],
   services |-> EmptyDict,
   networking |-> [application_port |-> NonePort, health_check_path |-> None,
                   load_balancer |-> FALSE, ssl_certificate |-> FALSE]]

InitFrame ==
  [requirements |-> EmptyDict, repo_analysis |-> NoProfile,
   deployment_strategy |-> NoConfig, infrastructure |-> {},
   terraform_dir |-> FALSE, pending |-> None, elapsed |-> 0, url |-> NoUrl]

InitObs ==
  [reply |-> None,            \* kind of the reply the chat-completion call gave
   raised |-> None,           \* message of the exception process_deployment caught
   escaped |-> FALSE,         \* an exception left process_deployment
   provision_error |-> None,  \* message of the error raised inside provision()
   teardowns |-> 0,           \* terraform destroy runs started
   teardown_failed |-> FALSE, \* the last terraform destroy failed
   applied |-> FALSE,         \* terraform apply succeeded
   provisioned |-> FALSE,     \* provision() returned normally
   deploy_called |-> FALSE,   \* ApplicationDeployer.deploy was invoked
   attempts |-> 0,            \* failed SSH attempts seen, up to MaxTransient
   probes |-> 0,              \* curl probes of _verify_deployment
   probe_time |-> 0,          \* total duration of those probes
   last_dur |-> 0,            \* duration of the last probe
   probe_ok |-> FALSE,        \* the last probe succeeded
   verify_end |-> -1,         \* elapsed time when _verify_deployment returned
   cancelled |-> FALSE]       \* the task was cancelled

NotFound == [detail |-> "Deployment not found"]
NoResponse == [code |-> 0, kind |-> "none", id |-> UnknownId, body |-> <<>>]

NoCall == [fn |-> None, args |-> <<>>, returned |-> FALSE, result |-> None]

InitStore(w) ==
  /\ workload = w
  /\ deployment_status = [d \in {} |-> NewRecord]
  /\ log_calls = [d \in Ids |-> 0]
  /\ pc = [d \in Ids |-> "none"]
  /\ running = 0
  /\ request = [d \in Ids |-> {}]
  /\ frame = [d \in Ids |-> InitFrame]
  /\ obs = [d \in Ids |-> InitObs]
  /\ response = NoResponse

InitFor(w) == InitStore(w) /\ call = NoCall

Init == \E w \in Workloads : InitFor(w)

\* ------------------------------------------------- steps of the pipeline
\* A step works on S = [ds, n]: the store and the log_step call counts.
Now == [ds |-> deployment_status, n |-> log_calls]
L(S, d, message) ==
  [ds |-> log_step(S.ds, d, message), n |-> [S.n EXCEPT ![d] = @ + 1]]
U(S, d, status, message) ==
  [ds |-> update_deployment_status(S.ds, d, status, message),
   n |-> [S.n EXCEPT ![d] = @ + 1]]

\* main.py 134-137: the except clause of process_deployment
OnExceptionNoError(S, d, e) ==
  U(S, d, "failed", "Deployment failed: " \o e)
OnException(S, d, e) ==
  LET S1 == U(S, d, "failed", "Deployment failed: " \o e)
  IN [S1 EXCEPT !.ds[d].error = e]

OnSuccessStatusOnly(S, d, url, infrastructure) ==
  LET S1 == L(S, d, "Application deployed successfully")
  IN U(S1, d, "completed", "Deployment successful!")

\* main.py 120-132: the success tail of process_deployment
OnSuccess(S, d, url, infrastructure) ==
  LET S1 == L(S, d, "Application deployed successfully")
      S2 == U(S1, d, "completed", "Deployment successful!")
  IN [S2 EXCEPT !.ds[d].deployment_url = url,
                !.ds[d].infrastructure = infrastructure,
                !.ds[d].keys = @ \cup {"deployment_url", "infrastructure", "end_time"}]

Commit(d, S, position, holder, fr, ob) ==
  /\ deployment_status' = S.ds
  /\ log_calls' = S.n
  /\ pc' = [pc EXCEPT ![d] = position]
  /\ running' = holder
  /\ frame' = [frame EXCEPT ![d] = fr]
  /\ obs' = [obs EXCEPT ![d] = ob]
  /\ response' = NoResponse
  /\ UNCHANGED <<request, workload, call>>

\* an exception reaches the except clause of process_deployment
Raise(d, S, e, fr, ob) ==
  Commit(d, OnException(S, d, e), "done", 0, fr, [ob EXCEPT !.raised = e])

\* deploy() returned: the task runs to its end without suspending
Succeed(d, S, url, fr, ob) ==
  Commit(d, OnSuccess(S, d, url, fr.infrastructure), "done", 0, fr, ob)

\* The outcomes of an external call made for deployment d (True: it worked),
\* and whether a call in a wait loop may fail once more after count failures
Faulty(d) == d \in workload.faulty
Outcomes(d) == IF Faulty(d) THEN BOOLEAN ELSE {TRUE}
MayFail(d, count) == Faulty(d) /\ (workload.persistent \/ count < MaxTransient)

\* main.py 33-56: POST /deploy
deploy_application(d) ==
  /\ running = 0
  /\ d \in workload.ids
  /\ d \notin DOMAIN deployment_status
  /\ \A x \in workload.ids : x < d => x \in DOMAIN deployment_status
  /\ \E description \in workload.descriptions :
       request' = [request EXCEPT ![d] = description]
  /\ deployment_status' = [x \in DOMAIN deployment_status \cup {d} |->
                             IF x = d THEN NewRecord ELSE deployment_status[x]]
  /\ pc' = [pc EXCEPT ![d] = "scheduled"]
  /\ response' = [code |-> 200, kind |-> "deploy", id |-> d,
                  body |-> [deployment_id |-> d, status |-> "initiated"]]
  /\ UNCHANGED <<log_calls, running, frame, obs, workload, call>>

get_deployment_status_default(id) ==
  /\ running = 0
  /\ response' = [code |-> 200, kind |-> "status", id |-> id,
                  body |-> IF id \in DOMAIN deployment_status
                           THEN deployment_status[id] ELSE NewRecord]
  /\ UNCHANGED <<deployment_status, log_calls, pc, running, request, frame,
                 obs, workload, call>>

\* main.py 58-66: GET /status/{id}
get_deployment_status(id) ==
  /\ running = 0
  /\ response' = IF id \notin DOMAIN deployment_status
                 THEN [code |-> 404, kind |-> "status", id |-> id,
                       body |-> NotFound]
                 ELSE [code |-> 200, kind |-> "status", id |-> id,
                       body |-> deployment_status[id]]
  /\ UNCHANGED <<deployment_status, log_calls, pc, running, request, frame,
                 obs, workload, call>>

\* main.py 68-76: GET /logs/{id}
get_deployment_logs(id) ==
  /\ running = 0
  /\ response' = IF id \notin DOMAIN deployment_status
                 THEN [code |-> 404, kind |-> "logs", id |-> id,
                       body |-> NotFound]
                 ELSE [code |-> 200, kind |-> "logs", id |-> id,
                       body |-> [logs |-> deployment_status[id].logs]]
  /\ UNCHANGED <<deployment_status, log_calls, pc, running, request, frame,
                 obs, workload, call>>

\* main.py 82-89: the task starts and enters the chat-completion call, a
\* synchronous HTTP call made on the event-loop thread
StartPipeline(d) ==
  /\ running = 0
  /\ pc[d] = "scheduled"
  /\ LET S1 == U(Now, d, "processing", "Starting deployment analysis...")
         S2 == L(S1, d, "Parsing natural language requirements...")
     IN \E key_set \in Outcomes(d) :
          IF key_set
          THEN Commit(d, S2, "nlp_call", d, frame[d], obs[d])
          ELSE \* NLPParser(): openai.OpenAI(api_key=None) raises
               Raise(d, S2, "The api_key client option must be set", frame[d], obs[d])

\* main.py 89-95, nlp_parser.py 15-44: parse_requirements returns and the
\* task enters git.Repo.clone_from, again synchronous
NlpReturn(d) ==
  /\ pc[d] = "nlp_call"
  /\ \E reply \in workload.replies :
       LET requirements == parse_requirements(request[d], reply)
           S1 == L(Now, d, "Parsed requirements")
           S2 == L(S1, d, "Analyzing repository")
       IN Commit(d, S2, "clone", d,
                 [frame[d] EXCEPT !.requirements = requirements],
                 [obs[d] EXCEPT !.reply = reply.kind])

\* infrastructure_provisioner.py 479-536: the outputs declared per strategy
_generate_outputs_tf(strategy) ==
  {"deployment_id", "vpc_id"} \cup
  CASE strategy = "vm" -> {"instance_ip", "instance_dns", "application_url"}
    [] strategy = "serverless" ->
         {"api_gateway_url", "lambda_function_name", "application_url"}
    [] strategy = "container" ->
         {"ecs_cluster_name", "ecr_repository_url", "application_url"}
    [] OTHER -> {}

ProvisionFailedSwallowed(d, S, e, fr, ob) ==
  Commit(d, S, "tf_output", 0, fr, [ob EXCEPT !.provision_error = e])

\* infrastructure_provisioner.py 47-52, 726-732: the except clause of
\* provision starts terraform destroy when the working directory exists
ProvisionFailed(d, S, e, fr, ob) ==
  IF fr.terraform_dir
  THEN Commit(d, S, "tf_destroy", 0, [fr EXCEPT !.pending = e],
              [ob EXCEPT !.teardowns = @ + 1, !.provision_error = e])
  ELSE Raise(d, S, e, fr, [ob EXCEPT !.provision_error = e])

ProviderSupportedAny(cloud_provider) == TRUE

\* infrastructure_provisioner.py 86-95: _generate_main_tf raises ValueError
\* for every provider but aws
ProviderSupported(cloud_provider) == cloud_provider = "aws"

\* main.py 95-109, repository_analyser.py 51-128, infrastructure_provisioner.py
\* 16-33: the clone returns; analysis, strategy decision and the generation
\* of the Terraform files run without suspending, up to `terraform init`
CloneReturn(d) ==
  /\ pc[d] = "clone"
  /\ \/ Faulty(d) /\ Raise(d, Now, "Failed to clone repository", frame[d], obs[d])
     \/ \E repo_analysis \in workload.profiles, tmp_ok \in Outcomes(d) :
        \E deployment_strategy \in
             {determine_strategy(frame[d].requirements, repo_analysis)} :
          LET S1 == L(Now, d, "Repository analysis complete")
              S2 == L(S1, d, "Determining optimal deployment strategy...")
              S3 == L(S2, d, "Deployment strategy")
              S4 == L(S3, d, "Provisioning cloud infrastructure...")
              fr == [frame[d] EXCEPT !.repo_analysis = repo_analysis,
                                     !.deployment_strategy = deployment_strategy,
                                     !.terraform_dir = tmp_ok]
          IN IF ~tmp_ok
             THEN ProvisionFailed(d, S4, "No usable temporary directory", fr, obs[d])
             ELSE IF ~ProviderSupported(deployment_strategy.cloud_provider)
             THEN ProvisionFailed(d, S4, "Unsupported cloud provider", fr, obs[d])
             ELSE Commit(d, S4, "tf_init", 0, fr, obs[d])

\* infrastructure_provisioner.py 33, 678-707
TerraformInit(d) ==
  /\ running = 0
  /\ pc[d] = "tf_init"
  /\ \/ Commit(d, Now, "tf_plan", 0, frame[d], obs[d])
     \/ Faulty(d) /\ ProvisionFailed(d, Now, "Terraform init failed", frame[d], obs[d])

\* infrastructure_provisioner.py 36
TerraformPlan(d) ==
  /\ running = 0
  /\ pc[d] = "tf_plan"
  /\ \/ Commit(d, Now, "tf_apply", 0, frame[d], obs[d])
     \/ Faulty(d) /\ ProvisionFailed(d, Now, "Terraform plan failed", frame[d], obs[d])

\* infrastructure_provisioner.py 39
TerraformApply(d) ==
  /\ running = 0
  /\ pc[d] = "tf_apply"
  /\ \/ Commit(d, Now, "tf_output", 0, frame[d], [obs[d] EXCEPT !.applied = TRUE])
     \/ Faulty(d) /\ ProvisionFailed(d, Now, "Terraform apply failed", frame[d], obs[d])

\* infrastructure_provisioner.py 726-732 then 52: destroy returns, its
\* failure is swallowed, and the pending error is raised again
TerraformDestroyPropagates(d) ==
  /\ running = 0
  /\ pc[d] = "tf_destroy"
  /\ \E ok \in BOOLEAN :
       Raise(d, Now, IF ok THEN frame[d].pending ELSE "Terraform destroy failed",
             frame[d], [obs[d] EXCEPT !.teardown_failed = ~ok])

TerraformDestroy(d) ==
  /\ running = 0
  /\ pc[d] = "tf_destroy"
  /\ \E ok \in BOOLEAN :
       Raise(d, Now, frame[d].pending, frame[d],
             [obs[d] EXCEPT !.teardown_failed = ~ok])

\* application_deployer.py 18-37, 39-49, 84-90, 113-123: deploy dispatches on
\* the strategy and runs to the first external call of the chosen routine
deploy(d, S, fr, ob) ==
  LET strategy == fr.deployment_strategy.strategy
      ob1 == [ob EXCEPT !.deploy_called = TRUE]
  IN CASE strategy = "vm" ->
            IF "instance_ip" \notin fr.infrastructure
            THEN Raise(d, S, "Instance IP not found in infrastructure info", fr, ob1)
            ELSE Commit(d, S, "vm_connect", d, [fr EXCEPT !.elapsed = 0], ob1)
       [] strategy = "serverless" -> Commit(d, S, "sls_clone", d, fr, ob1)
       [] strategy = "container" ->
            IF "ecr_repository_url" \notin fr.infrastructure
            THEN Raise(d, S, "ECR repository URL not found", fr, ob1)
            ELSE Commit(d, S, "docker_clone", d, fr, ob1)
       [] OTHER -> Raise(d, S, "Unsupported deployment strategy", fr, ob1)

\* infrastructure_provisioner.py 42-45, 709-724, main.py 112-117: the outputs
\* are read (a failure yields {}), provision returns and deploy is entered
TerraformOutput(d) ==
  /\ running = 0
  /\ pc[d] = "tf_output"
  /\ \E ok \in Outcomes(d) :
       LET infrastructure ==
             IF ok THEN _generate_outputs_tf(frame[d].deployment_strategy.strategy)
             ELSE {}
           S1 == L(Now, d, "Infrastructure provisioned")
           S2 == L(S1, d, "Deploying application...")
       IN deploy(d, S2, [frame[d] EXCEPT !.infrastructure = infrastructure],
                 [obs[d] EXCEPT !.provisioned = TRUE])

\* application_deployer.py 596-605: _verify_deployment is entered with url.
\* A missing url or the literal placeholder skips the probes.
IsPlaceholder(url) ==
  url = NoUrl \/ url = [host |-> "ecs-service-url", port |-> 8000]

\* the caller of _verify_deployment raises when it returns False
VerifyFailedMessage(strategy) ==
  IF strategy = "serverless" THEN "Serverless deployment verification failed"
  ELSE "Application deployment verification failed"

_verify_deployment(d, S, url, fr, ob) ==
  IF IsPlaceholder(url)
  THEN Succeed(d, S, url, fr, [ob EXCEPT !.verify_end = 0])
  ELSE \* start_time = time.time(); 0 < timeout; curl is started
       Commit(d, S, "probe", 0, [fr EXCEPT !.elapsed = 0, !.url = url],
              [ob EXCEPT !.probes = 0, !.probe_time = 0])

\* application_deployer.py 145-161: one ssh.connect attempt of
\* _wait_for_vm_ready returns (a synchronous call)
VmConnectReturn(d) ==
  /\ pc[d] = "vm_connect"
  /\ \E dur \in {0, SshTimeout} :
       LET fr == [frame[d] EXCEPT !.elapsed = @ + dur]
           ob == [obs[d] EXCEPT !.attempts = IF @ < MaxTransient THEN @ + 1 ELSE @]
       IN \/ Commit(d, Now, "ssh_connect", d, fr, obs[d])
          \/ /\ MayFail(d, obs[d].attempts)
             /\ Commit(d, Now, "vm_sleep", 0, fr, ob)

VmSleepReturnRestart(d) ==
  /\ running = 0
  /\ pc[d] = "vm_sleep"
  /\ LET fr == [frame[d] EXCEPT !.elapsed = @ + VmSleep]
     IN IF fr.elapsed < VmTimeout
        THEN Commit(d, Now, "vm_connect", d, fr, obs[d])
        ELSE Commit(d, Now, "vm_connect", d, [fr EXCEPT !.elapsed = 0], obs[d])

\* application_deployer.py 160-163, 145: asyncio.sleep(10) ends and the loop
\* condition is evaluated
VmSleepReturn(d) ==
  /\ running = 0
  /\ pc[d] = "vm_sleep"
  /\ LET fr == [frame[d] EXCEPT !.elapsed = @ + VmSleep]
     IN IF fr.elapsed < VmTimeout
        THEN Commit(d, Now, "vm_connect", d, fr, obs[d])
        ELSE Raise(d, Now, "VM not ready after 300 seconds", fr, obs[d])

\* application_deployer.py 165-181: _connect_ssh returns
SshConnectReturn(d) ==
  /\ pc[d] = "ssh_connect"
  /\ \/ Commit(d, Now, "vm_setup", d, frame[d], obs[d])
     \/ Faulty(d) /\ Raise(d, Now, "Failed to connect via SSH", frame[d], obs[d])

\* application_deployer.py 54-69, 188-243, 273-292: the remote commands that
\* clone, build and start the application, all synchronous, then verification
VmSetupReturn(d) ==
  /\ pc[d] = "vm_setup"
  /\ \/ Faulty(d) /\ Raise(d, Now, "Command failed", frame[d], obs[d])
     \/ IF frame[d].deployment_strategy.application.start_commands = <<>>
        THEN Raise(d, Now, "No start commands defined for application",
                   frame[d], obs[d])
        ELSE _verify_deployment(d, Now,
               [host |-> "instance_ip",
                port |-> frame[d].deployment_strategy.application.port],
               frame[d], obs[d])

ProbeReturnKeepsProbing(d) ==
  /\ running = 0
  /\ pc[d] = "probe"
  /\ \E dur \in workload.durations, ok \in BOOLEAN :
       LET fr == [frame[d] EXCEPT !.elapsed = @ + dur]
           ob == [obs[d] EXCEPT !.probes = @ + 1, !.probe_time = @ + dur,
                                !.last_dur = dur, !.probe_ok = ok]
       IN /\ ok \/ MayFail(d, obs[d].probes)
          /\ Commit(d, Now, "verify_sleep", 0, fr, ob)

\* application_deployer.py 608-623: one curl probe returns
ProbeReturn(d) ==
  /\ running = 0
  /\ pc[d] = "probe"
  /\ \E dur \in workload.durations :
       LET fr == [frame[d] EXCEPT !.elapsed = @ + dur]
           ob == [obs[d] EXCEPT !.probes = @ + 1, !.probe_time = @ + dur,
                                !.last_dur = dur]
       IN \/ Succeed(d, Now, fr.url, fr,
                     [ob EXCEPT !.probe_ok = TRUE, !.verify_end = fr.elapsed])
          \/ /\ MayFail(d, obs[d].probes)
             /\ Commit(d, Now, "verify_sleep", 0, fr, ob)

VerifySleepReturnTeardown(d) ==
  /\ running = 0
  /\ pc[d] = "verify_sleep"
  /\ LET fr == [frame[d] EXCEPT !.elapsed = @ + VerifySleep]
     IN IF fr.elapsed < VerifyTimeout
        THEN Commit(d, Now, "probe", 0, fr, obs[d])
        ELSE Commit(d, Now, "tf_destroy", 0,
                    [fr EXCEPT !.pending =
                       VerifyFailedMessage(fr.deployment_strategy.strategy)],
                    [obs[d] EXCEPT !.verify_end = fr.elapsed,
                                   !.teardowns = @ + 1])

VerifySleepReturnInclusive(d) ==
  /\ running = 0
  /\ pc[d] = "verify_sleep"
  /\ LET fr == [frame[d] EXCEPT !.elapsed = @ + VerifySleep]
     IN IF fr.elapsed <= VerifyTimeout
        THEN Commit(d, Now, "probe", 0, fr, obs[d])
        ELSE Raise(d, Now,
                   VerifyFailedMessage(fr.deployment_strategy.strategy), fr,
                   [obs[d] EXCEPT !.verify_end = fr.elapsed])

\* application_deployer.py 623-626, 605: asyncio.sleep(30) ends and the loop
\* condition is evaluated
VerifySleepReturn(d) ==
  /\ running = 0
  /\ pc[d] = "verify_sleep"
  /\ LET fr == [frame[d] EXCEPT !.elapsed = @ + VerifySleep]
     IN IF fr.elapsed < VerifyTimeout
        THEN Commit(d, Now, "probe", 0, fr, obs[d])
        ELSE Raise(d, Now,
                   VerifyFailedMessage(fr.deployment_strategy.strategy), fr,
                   [obs[d] EXCEPT !.verify_end = fr.elapsed])

\* application_deployer.py 294-322: the synchronous clone of
\* _create_serverless_package returns; installing and zipping are subprocesses
SlsCloneReturn(d) ==
  /\ pc[d] = "sls_clone"
  /\ \/ Commit(d, Now, "sls_package", 0, frame[d], obs[d])
     \/ Faulty(d) /\ Raise(d, Now, "Failed to clone repository for packaging", frame[d], obs[d])

\* application_deployer.py 303-317, 92-97
SlsPackageReturn(d) ==
  /\ running = 0
  /\ pc[d] = "sls_package"
  /\ \/ Faulty(d) /\ Raise(d, Now, "Packaging failed", frame[d], obs[d])
     \/ IF "lambda_function_name" \notin frame[d].infrastructure
        THEN Raise(d, Now, "Lambda function name not found", frame[d], obs[d])
        ELSE Commit(d, Now, "sls_upload", 0, frame[d], obs[d])

\* application_deployer.py 434-448, 99-111
SlsUploadReturn(d) ==
  /\ running = 0
  /\ pc[d] = "sls_upload"
  /\ \/ Faulty(d) /\ Raise(d, Now, "Failed to upload Lambda package", frame[d], obs[d])
     \/ _verify_deployment(d, Now,
          IF "api_gateway_url" \in frame[d].infrastructure
          THEN [host |-> "api_gateway_url", port |-> NonePort] ELSE NoUrl,
          frame[d], obs[d])

\* application_deployer.py 450-474: the synchronous clone of
\* _build_and_push_docker_image returns and docker build is started
DockerCloneReturn(d) ==
  /\ pc[d] = "docker_clone"
  /\ \/ Commit(d, Now, "docker_build", 0, frame[d], obs[d])
     \/ Faulty(d) /\ Raise(d, Now, "Failed to clone repository for image", frame[d], obs[d])

\* application_deployer.py 474-506
DockerBuildReturn(d) ==
  /\ running = 0
  /\ pc[d] = "docker_build"
  /\ \/ Commit(d, Now, "docker_push", 0, frame[d], obs[d])
     \/ Faulty(d) /\ Raise(d, Now, "Docker build failed", frame[d], obs[d])

\* application_deployer.py 506-513, 125-127
DockerPushReturn(d) ==
  /\ running = 0
  /\ pc[d] = "docker_push"
  /\ \/ Commit(d, Now, "ecs_update", 0, frame[d], obs[d])
     \/ Faulty(d) /\ Raise(d, Now, "Docker push failed", frame[d], obs[d])

\* application_deployer.py 580-594, 129-138: the result of update-service is
\* not inspected; the routine returns the placeholder url without verifying
EcsUpdateReturn(d) ==
  /\ running = 0
  /\ pc[d] = "ecs_update"
  /\ Succeed(d, Now,
             [host |-> "ecs-service-url",
              port |-> frame[d].deployment_strategy.application.port],
             frame[d], obs[d])

Step(d) ==
  \/ StartPipeline(d) \/ NlpReturn(d) \/ CloneReturn(d)
  \/ TerraformInit(d) \/ TerraformPlan(d) \/ TerraformApply(d)
  \/ TerraformOutput(d) \/ TerraformDestroy(d)
  \/ VmConnectReturn(d) \/ VmSleepReturn(d) \/ SshConnectReturn(d)
  \/ VmSetupReturn(d) \/ ProbeReturn(d) \/ VerifySleepReturn(d)
  \/ SlsCloneReturn(d) \/ SlsPackageReturn(d) \/ SlsUploadReturn(d)
  \/ DockerCloneReturn(d) \/ DockerBuildReturn(d) \/ DockerPushReturn(d)
  \/ EcsUpdateReturn(d)

Next ==
  \/ \E d \in Ids : deploy_application(d)
  \/ \E id \in workload.polled : get_deployment_status(id)
  \/ \E id \in workload.polled : get_deployment_logs(id)
  \/ \E d \in Ids : Step(d)

Spec == Init /\ [][Next]_vars

\* ------------------------------------------------ further specifications
\* Every task step is taken once it stays possible: the event loop runs a
\* ready task, and every external call returns.
LiveSpec == Init /\ [][Next]_vars /\ \A d \in Ids : WF_vars(Step(d))

\* Positions where the task is suspended in an await (the loop is free)
Suspended ==
  {"tf_init", "tf_plan", "tf_apply", "tf_output", "tf_destroy", "vm_sleep",
   "probe", "verify_sleep", "sls_package", "sls_upload", "docker_build",
   "docker_push", "ecs_update"}
\* Positions where the task is inside a synchronous external call
Blocking ==
  {"nlp_call", "clone", "vm_connect", "ssh_connect", "vm_setup", "sls_clone",
   "docker_clone"}

\* main.py 82-137, infrastructure_provisioner.py 47-52: the task is cancelled
\* while suspended.  asyncio raises CancelledError at the await; it is a
\* BaseException, so neither `except Exception` clause runs: no teardown is
\* started and the record is not updated.
Cancel(d) ==
  /\ running = 0
  /\ pc[d] \in Suspended
  /\ Commit(d, Now, "cancelled", 0, frame[d],
            [obs[d] EXCEPT !.cancelled = TRUE, !.escaped = TRUE])

NextCancel == Next \/ \E d \in Ids : Cancel(d)
SpecCancel == Init /\ [][NextCancel]_vars

\* ------------------------------------------------------------ the client
\* cli.py 51-103: follow_deployment(deployment_id) runs in the client process
\* while the server works. `call` holds its locals: where it is in the loop
\* (at), last_log_count, the status read in this round (current_status) and
\* what it has printed; resumed records that a batch of entries was printed
\* after an earlier one. A request is answered when the event loop of the
\* server is free.
FollowCall(id) ==
  [fn |-> "follow_deployment", args |-> <<id>>, returned |-> FALSE,
   result |-> FALSE, at |-> "status", last_log_count |-> 0,
   current_status |-> None, printed |-> <<>>, resumed |-> FALSE,
   raised |-> FALSE]
Following == call.fn = "follow_deployment" /\ ~call.returned

NewEntriesAll(logs, last_log_count) == logs

\* cli.py 76: logs[last_log_count:]
NewEntries(logs, last_log_count) ==
  SubSeq(logs, last_log_count + 1, Len(logs))

\* cli.py 58-66: GET /status/{id}; anything but 200 ends the call
FollowStatus ==
  /\ Following
  /\ call.at = "status"
  /\ running = 0
  /\ call' = IF call.args[1] \notin DOMAIN deployment_status
             THEN [call EXCEPT !.returned = TRUE, !.result = FALSE]
             ELSE [call EXCEPT
                     !.at = "logs",
                     !.current_status = deployment_status[call.args[1]].status]
  /\ UNCHANGED <<deployment_status, log_calls, pc, running, request, frame,
                 obs, response, workload>>

\* cli.py 68-98: GET /logs/{id}, the new entries are printed, and the call
\* returns on the status read before, or sleeps and goes round again
FollowLogs ==
  /\ Following
  /\ call.at = "logs"
  /\ running = 0
  /\ LET logs == deployment_status[call.args[1]].logs
         new == NewEntries(logs, call.last_log_count)
     IN call' = [call EXCEPT
                   !.printed = @ \o new,
                   !.resumed = @ \/ (call.printed # <<>> /\ new # <<>>),
                   !.last_log_count = Len(logs),
                   !.at = IF call.current_status \in {"completed", "failed"}
                          THEN "done" ELSE "status",
                   !.returned = call.current_status \in {"completed", "failed"},
                   !.result = call.current_status = "completed"]
  /\ UNCHANGED <<deployment_status, log_calls, pc, running, request, frame,
                 obs, response, workload>>

\* cli.py 98-103: a request raises (the server is not reachable) or the user
\* interrupts the client: the call returns False
FollowRaise ==
  /\ Following
  /\ call' = [call EXCEPT !.returned = TRUE, !.result = FALSE,
                          !.raised = TRUE]
  /\ UNCHANGED <<deployment_status, log_calls, pc, running, request, frame,
                 obs, response, workload>>

FollowInit ==
  \E w \in Workloads : \E id \in w.polled : InitStore(w) /\ call = FollowCall(id)
FollowNext ==
  \/ \E d \in Ids : deploy_application(d)
  \/ \E d \in Ids : Step(d)
  \/ FollowStatus \/ FollowLogs \/ FollowRaise
FollowSpec == FollowInit /\ [][FollowNext]_vars

\* ------------------------------------------------------ repository analysis
\* A checkout is modelled by what the analyzer reads from it: the language
\* with most source files ("unknown" when there is none), the framework whose
\* patterns occur most often, the dependency manifest of that language
\* (missing, parsed, or present but unparsable), the entry-point files and
\* the first port a pattern matches (NonePort when none does).
ManifestOf(language) ==
  CASE language = "python" -> "requirements.txt"
    [] language = "nodejs" -> "package.json"
    [] language = "java" -> "pom.xml"
    [] OTHER -> None
FrameworksOf(language) ==
  CASE language = "python" -> {"flask", "django", "fastapi", None}
    [] language = "nodejs" -> {"express", None}
    [] language = "java" -> {"spring", None}
    [] OTHER -> {None}
Checkouts ==
  {c \in [language : {"python", "nodejs", "java", "unknown"},
          framework : {"flask", "django", "fastapi", "express", "spring", None},
          manifest : {"missing", "parsed", "unparsable"},
          entry_points : {<<>>, <<"app.py">>, <<"main.py">>},
          port : {NonePort, 5000}] :
     /\ c.framework \in FrameworksOf(c.language)
     /\ c.language = "unknown" => (c.port = NonePort /\ c.manifest = "missing")}

\* repository_analyser.py 198-277: one entry per manifest that exists; a
\* parser that fails returns an empty list or dict
_analyze_dependencies(checkout) ==
  IF ManifestOf(checkout.language) = None \/ checkout.manifest = "missing"
  THEN EmptyDict
  ELSE ManifestOf(checkout.language) :>
         (IF checkout.manifest = "parsed" THEN <<"flask">> ELSE <<>>)

\* repository_analyser.py 412-475
_generate_start_commands(checkout) ==
  LET language == checkout.language
      framework == checkout.framework
      entry_points == checkout.entry_points
      commands ==
        CASE language = "python" ->
               (CASE framework = "flask" ->
                       IF entry_points = <<"app.py">> THEN <<"python app.py">>
                       ELSE IF entry_points = <<"main.py">>
                       THEN <<"python main.py">>
                       ELSE <<"flask run --host=0.0.0.0">>
                  [] framework = "django" ->
                       <<"python manage.py runserver 0.0.0.0:8000">>
                  [] framework = "fastapi" ->
                       IF entry_points = <<"main.py">>
                       THEN <<"uvicorn main:app --host 0.0.0.0 --port 8000">>
                       ELSE <<"uvicorn app:app --host 0.0.0.0 --port 8000">>
                  [] OTHER ->
                       IF entry_points # <<>>
                       THEN <<"python " \o entry_points[1]>> ELSE <<>>)
          [] language = "nodejs" ->
               IF checkout.manifest = "parsed" THEN <<"npm start">>
               ELSE IF entry_points # <<>>
               THEN <<"node " \o entry_points[1]>> ELSE <<>>
          [] language = "java" ->
               IF framework = "spring" THEN <<"java -jar target/*.jar">>
               ELSE <<"java -cp target/classes com.example.Main">>
          [] OTHER -> <<>>
  IN IF commands # <<>> THEN commands
     ELSE IF language = "python" THEN <<"python main.py">>
     ELSE IF language = "nodejs" THEN <<"node index.js">>
     ELSE <<>>

\* repository_analyser.py 534-562: confidence is a double, written <<h, u>>:
\* the double nearest to h/100, moved by u units in the last place.  CAdd is
\* IEEE-754 double addition of c/100 on the sums the method can form.
CAdd ==
  [v \in (0..100) \X (-2..2), c \in 0..30 |->
     CASE v = <<10, 0>> /\ c = 5 -> <<15, 1>>
       [] v = <<20, 0>> /\ c = 10 -> <<30, 1>>
       [] v = <<30, 0>> /\ c = 15 -> <<45, -1>>
       [] v = <<35, 0>> /\ c = 5 -> <<40, -1>>
       [] v = <<35, 0>> /\ c = 10 -> <<45, -1>>
       [] v = <<55, -1>> /\ c = 5 -> <<60, 0>>
       [] v = <<55, 0>> /\ c = 5 -> <<60, 1>>
       [] v = <<65, 0>> /\ c = 5 -> <<70, 1>>
       [] v = <<70, 0>> /\ c = 10 -> <<80, -1>>
       [] v = <<80, -1>> /\ c = 5 -> <<85, 0>>
       [] OTHER -> <<v[1] + c, v[2]>>]
COne == <<100, 0>>
CSum(terms) ==
  LET acc[i \in 0..Len(terms)] ==
        IF i = 0 THEN FZero ELSE CAdd[acc[i - 1], terms[i]]
  IN acc[Len(terms)]
_calculate_confidence(analysis) ==
  LET confidence ==
        CSum(<<Term(analysis.language # "unknown", 30),
               Term(analysis.framework # None, 20),
               Term(DOMAIN analysis.dependencies # {}, 20),
               Term(analysis.entry_points # <<>>, 15),
               Term(analysis.port # NonePort, 10),
               Term(analysis.start_commands # <<>>, 5)>>)
  IN IF FLess(COne, confidence) THEN COne ELSE confidence

\* repository_analyser.py 51-116: the analysis of a checkout
analyze_repository(checkout) ==
  LET analysis ==
        [language |-> checkout.language,
         framework |-> checkout.framework,
         dependencies |-> _analyze_dependencies(checkout),
         entry_points |-> checkout.entry_points,
         start_commands |-> _generate_start_commands(checkout),
         port |-> checkout.port]
  IN [k \in DOMAIN analysis \cup {"analysis_confidence"} |->
        IF k = "analysis_confidence" THEN _calculate_confidence(analysis)
        ELSE analysis[k]]

\* ------------------------------------------------ direct calls of methods
\* The requirement sets and profiles a direct call of determine_strategy is
\* checked on: every key of the requirements may be missing, and "docker",
\* "huge" stand for values the engine does not know. The profiles are as the
\* analyzer builds them: every key present, port NonePort when no port was
\* detected, and "sqlite" a service the engine has no descriptor for.
Opt(key, values) == {EmptyDict} \cup {key :> v : v \in values}
RequirementSets ==
  {a @@ b @@ c :
     a \in Opt("deployment_preference", StrategySet \cup {"auto", "docker"}),
     b \in Opt("scaling", {"minimal", "moderate", "high", "huge"}),
     c \in Opt("environment", {"production", "development"})}
ServiceList == <<"postgresql", "redis", "mongodb", "sqlite">>
EngineProfiles ==
  {[language |-> l, framework |-> f,
    required_services |-> SubSeq(ServiceList, 1, n),
    dockerfile_present |-> b, port |-> p, start_commands |-> <<>>] :
     l \in {"python", "nodejs", "java", "unknown"},
     f \in {"flask", "django", "fastapi", "express", "spring", None},
     n \in 0..Len(ServiceList), b \in BOOLEAN, p \in {NonePort, 5000}}

\* repository_analyser.py 136-150: the tree walk is modelled by the suffixes
\* of the files in the order os.walk yields them, which is the order of the
\* directory listing and so any order; the files match no framework pattern.
Suffixes == {".py", ".js", ".ts", ".java", ".md"}
Walks == UNION {[1..n -> Suffixes] : n \in 0..MaxFiles}
Languages == <<"python", "nodejs", "java">>
LanguageOf(suffix) ==
  CASE suffix = ".py" -> "python"
    [] suffix \in {".js", ".ts"} -> "nodejs"
    [] suffix = ".java" -> "java"
    [] OTHER -> None
FileCount(files, language) ==
  Cardinality({i \in 1..Len(files) : LanguageOf(files[i]) = language})
FirstSeen(files, language) ==
  CHOOSE i \in 1..Len(files) :
    /\ LanguageOf(files[i]) = language
    /\ \A j \in 1..(i - 1) : LanguageOf(files[j]) # language

\* repository_analyser.py 130-176: language_scores gets its keys in the
\* order the languages are first met, and max() returns the first key, in
\* that order, whose count no key exceeds
_detect_language_and_framework(files) ==
  LET scored == {l \in {"python", "nodejs", "java"} : FileCount(files, l) > 0}
  IN [language |->
        IF scored = {} THEN "unknown"
        ELSE CHOOSE l \in scored :
               \A m \in scored :
                 \/ FileCount(files, l) > FileCount(files, m)
                 \/ /\ FileCount(files, l) = FileCount(files, m)
                    /\ FirstSeen(files, l) <= FirstSeen(files, m),
      framework |-> None]

\* The urls a direct call of _verify_deployment is checked on: none, the
\* placeholder of the container routine and the address of an instance, with
\* the ports a plan can carry
VerifyUrls ==
  {NoUrl} \cup [host : {"ecs-service-url", "instance_ip"},
                port : {NonePort, 3000, 5000, 8000}]

CallInit ==
  /\ workload = RequestWorkload
  /\ deployment_status = [d \in {} |-> NewRecord]
  /\ log_calls = [d \in Ids |-> 0]
  /\ pc = [d \in Ids |-> "none"]
  /\ running = 0
  /\ request = [d \in Ids |-> {}]
  /\ frame = [d \in Ids |-> InitFrame]
  /\ obs = [d \in Ids |-> InitObs]
  /\ response = NoResponse
  /\ \/ \E requirements \in RequirementSets, repo_analysis \in EngineProfiles :
          call = [fn |-> "determine_strategy",
                  args |-> <<requirements, repo_analysis>>,
                  returned |-> FALSE, result |-> None]
     \/ \E checkout \in Checkouts :
          call = [fn |-> "analyze_repository", args |-> <<checkout>>,
                  returned |-> FALSE, result |-> None]
     \/ \E files \in Walks :
          call = [fn |-> "_detect_language_and_framework", args |-> <<files>>,
                  returned |-> FALSE, result |-> None]
     \/ \E url \in VerifyUrls :
          call = [fn |-> "_verify_deployment", args |-> <<url>>,
                  returned |-> FALSE, result |-> None]

\* deployment_engine.py 35-64: DeploymentEngine().determine_strategy(...)
CallDetermineStrategy ==
  /\ call.fn = "determine_strategy"
  /\ ~call.returned
  /\ call' = [call EXCEPT
                !.returned = TRUE,
                !.result = determine_strategy(call.args[1], call.args[2])]
  /\ UNCHANGED <<deployment_status, log_calls, pc, running, request, frame,
                 obs, response, workload>>

\* repository_analyser.py 51-116: RepositoryAnalyzer().analyze_repository,
\* after the clone
CallAnalyzeRepository ==
  /\ call.fn = "analyze_repository"
  /\ ~call.returned
  /\ call' = [call EXCEPT !.returned = TRUE,
                          !.result = analyze_repository(call.args[1])]
  /\ UNCHANGED <<deployment_status, log_calls, pc, running, request, frame,
                 obs, response, workload>>

\* application_deployer.py 596-630: ApplicationDeployer()._verify_deployment(url)
\* returns at once with a warning on a placeholder, and otherwise starts curl
\* (0 < timeout) and returns whether a probe succeeded before the timeout
CallVerifyDeployment ==
  /\ call.fn = "_verify_deployment"
  /\ ~call.returned
  /\ \E ok \in BOOLEAN :
       call' = [call EXCEPT
                  !.returned = TRUE,
                  !.result = IF IsPlaceholder(call.args[1])
                             THEN [value |-> TRUE, probed |-> FALSE,
                                   warned |-> TRUE]
                             ELSE [value |-> ok, probed |-> TRUE,
                                   warned |-> FALSE]]
  /\ UNCHANGED <<deployment_status, log_calls, pc, running, request, frame,
                 obs, response, workload>>

\* repository_analyser.py 130-176: RepositoryAnalyzer()._detect_language_and_framework
CallDetectLanguage ==
  /\ call.fn = "_detect_language_and_framework"
  /\ ~call.returned
  /\ call' = [call EXCEPT
                !.returned = TRUE,
                !.result = _detect_language_and_framework(call.args[1])]
  /\ UNCHANGED <<deployment_status, log_calls, pc, running, request, frame,
                 obs, response, workload>>

CallNext ==
  \/ CallDetermineStrategy \/ CallAnalyzeRepository
  \/ CallVerifyDeployment \/ CallDetectLanguage
CallSpec == CallInit /\ [][CallNext]_vars

\* ---------------------------------------------------------------- claims
Terminal == {"completed", "failed"}
Created == DOMAIN deployment_status
VerifyFailures ==
  {"Serverless deployment verification failed",
   "Application deployment verification failed"}

\* C1: the status of every record only moves initiated -> processing ->
\* completed, or from a non-terminal status to failed; it never regresses and
\* a completed or failed status never changes again.
C1_StatusOnlyMovesForward ==
  [][\A d \in Created :
       LET a == deployment_status[d].status
           b == deployment_status'[d].status
       IN \/ a = b
          \/ <<a, b>> \in {<<"initiated", "processing">>,
                           <<"processing", "completed">>,
                           <<"initiated", "failed">>,
                           <<"processing", "failed">>}]_vars
C1_Witness ==
  \E d, e \in Created :
    /\ deployment_status[d].status = "completed"
    /\ deployment_status[e].status = "failed"
    /\ pc[d] = "done" /\ pc[e] = "done"

\* C2: an error raised by any pipeline step never leaves process_deployment:
\* the record is failed with error equal to the raised message, and a failed
\* record always has its error set.
C2_FailedCarriesError ==
  \A d \in Created :
    /\ ~obs[d].escaped
    /\ obs[d].raised # None =>
         /\ pc[d] = "done"
         /\ deployment_status[d].status = "failed"
         /\ deployment_status[d].error = obs[d].raised
    /\ deployment_status[d].status = "failed" =>
         /\ deployment_status[d].error # None
         /\ deployment_status[d].error = obs[d].raised
C2_Witness ==
  \E d \in Created :
    /\ deployment_status[d].status = "failed"
    /\ obs[d].raised = "Failed to clone repository"

\* C3 (as stated): whenever a step of provision raises, a teardown is
\* attempted before the deployment fails with the provisioning error.
C3_TeardownOnEveryProvisionError ==
  \A d \in Created :
    (obs[d].provision_error # None /\ pc[d] = "done") =>
      /\ obs[d].teardowns >= 1
      /\ deployment_status[d].status = "failed"
      /\ deployment_status[d].error = obs[d].provision_error

\* C3 (amended): when a step of provision raises, terraform destroy is
\* started before the error propagates exactly if the Terraform working
\* directory had been created; the deployment ends failed with the original
\* provisioning error whether the teardown succeeds, fails or is not run.
C3_TeardownWhenWorkdirExists ==
  \A d \in Created :
    /\ pc[d] = "tf_destroy" =>
         /\ obs[d].teardowns = 1
         /\ frame[d].terraform_dir
         /\ deployment_status[d].status = "processing"
         /\ frame[d].pending = obs[d].provision_error
    /\ (obs[d].provision_error # None /\ pc[d] = "done") =>
         /\ deployment_status[d].status = "failed"
         /\ deployment_status[d].error = obs[d].provision_error
         /\ obs[d].teardowns = (IF frame[d].terraform_dir THEN 1 ELSE 0)
C3_Witness ==
  \E d \in Created :
    /\ pc[d] = "done"
    /\ obs[d].provision_error = "Terraform apply failed"
    /\ obs[d].teardowns = 1
    /\ obs[d].teardown_failed
    /\ deployment_status[d].error = "Terraform apply failed"

\* C4: once provision has returned, no teardown is ever started: a
\* deployment that then fails (backend error or verification timeout) is
\* failed with the applied infrastructure left in place.
C4_NoTeardownAfterProvision ==
  \A d \in Created :
    obs[d].provisioned =>
      /\ obs[d].teardowns = 0
      /\ obs[d].applied
      /\ pc[d] # "tf_destroy"
C4_Witness ==
  \E d \in Created :
    /\ obs[d].provisioned
    /\ deployment_status[d].status = "failed"
    /\ obs[d].raised \in VerifyFailures
    /\ obs[d].teardowns = 0

\* C5 (as stated): when every probe fails, verification reports failure
\* exactly 300 time units after it started.
C5_FailsAtExactlyTimeout ==
  \A d \in Created :
    obs[d].raised \in VerifyFailures => obs[d].verify_end = VerifyTimeout

\* C5 (amended): when every probe fails, verification reports failure at the
\* first loop check at which 300 units have elapsed: never before 300, at
\* exactly 300 when the probes take no time, and otherwise later, by less
\* than the last probe's duration plus the 30-unit sleep.
C5_FailsAtFirstCheckPastTimeout ==
  \A d \in Created :
    obs[d].raised \in VerifyFailures =>
      /\ deployment_status[d].status = "failed"
      /\ ~obs[d].probe_ok
      /\ obs[d].verify_end = VerifySleep * obs[d].probes + obs[d].probe_time
      /\ obs[d].verify_end >= VerifyTimeout
      /\ obs[d].verify_end - VerifySleep - obs[d].last_dur < VerifyTimeout
      /\ obs[d].probe_time = 0 => obs[d].verify_end = VerifyTimeout
C5_Witness ==
  \E d \in Created :
    /\ obs[d].raised \in VerifyFailures
    /\ obs[d].verify_end > VerifyTimeout

\* C6 (as stated): when the third probe is the first to succeed,
\* verification returns within 3 x 30 time units and the deployment is
\* completed without a further probe.
C6_ThirdProbeWithinThreeSleeps ==
  \A d \in Created :
    (obs[d].probe_ok /\ obs[d].probes = 3) =>
      /\ obs[d].verify_end <= 3 * VerifySleep
      /\ pc[d] = "done"
      /\ deployment_status[d].status = "completed"

\* C6 (amended): when the third probe is the first to succeed, verification
\* returns 2 x 30 time units plus the durations of the three probes after it
\* started (within 3 x 30 when the probes together take at most 30), no
\* further probe is issued and the deployment is completed.
C6_ThirdProbeAfterTwoSleeps ==
  \A d \in Created :
    (obs[d].probe_ok /\ obs[d].probes = 3) =>
      /\ obs[d].verify_end = 2 * VerifySleep + obs[d].probe_time
      /\ obs[d].probe_time <= VerifySleep => obs[d].verify_end <= 3 * VerifySleep
      /\ pc[d] = "done"
      /\ deployment_status[d].status = "completed"
C6_Witness ==
  \E d \in Created :
    /\ obs[d].probe_ok /\ obs[d].probes = 3
    /\ obs[d].probe_time > VerifySleep
    /\ deployment_status[d].status = "completed"

\* C7: while a deployment is inside a long-running external call, a status
\* read, a log read and the start of another deployment's pipeline are
\* possible.
C7_ExternalCallsNeverBlockTheLoop ==
  \A d \in Created :
    pc[d] \in Suspended \cup Blocking =>
      /\ ENABLED get_deployment_status(d)
      /\ ENABLED get_deployment_logs(d)
      /\ \A e \in Created : pc[e] = "scheduled" => ENABLED StartPipeline(e)

\* C8: every started deployment eventually reaches completed or failed.
C8_EveryDeploymentTerminates ==
  \A d \in Ids :
    (pc[d] = "scheduled") ~>
      (d \in Created /\ deployment_status[d].status \in Terminal)
C8_Witness ==
  \E d \in Created :
    /\ obs[d].raised = "VM not ready after 300 seconds"
    /\ frame[d].elapsed >= VmTimeout
    /\ deployment_status[d].status = "failed"

\* C9: a cancelled pipeline has attempted a teardown and left the record in
\* a terminal state.
C9_CancelTearsDownAndTerminates ==
  \A d \in Created :
    obs[d].cancelled =>
      /\ obs[d].teardowns >= 1
      /\ deployment_status[d].status \in Terminal

\* C10: no log append is lost and an append touches one record only: at
\* every step the log of every id is as long as the number of log_step
\* calls made for it, and a step that appends for one id leaves the record
\* of every other id unchanged.
C10_NoAppendLost ==
  [][/\ \A d \in DOMAIN deployment_status' :
          /\ Len(deployment_status'[d].logs) = log_calls'[d]
          /\ Len(deployment_status'[d].steps) = log_calls'[d]
     /\ \A d \in Created :
          log_calls'[d] > log_calls[d] =>
            \A e \in Created \ {d} : deployment_status'[e] = deployment_status[e]]_vars
C10_Witness ==
  \E d, e \in Created :
    /\ d # e
    /\ pc[d] \in Suspended /\ pc[e] \in Suspended
    /\ log_calls[d] >= 6 /\ log_calls[e] >= 6

\* C11: the log of every record only grows at its end: across every step
\* the earlier logs and steps are prefixes of the later ones, and a step
\* that changes the status appends, in that same step, exactly one entry
\* that carries the message of the status update.
C11_LogAppendOnly ==
  [][\A d \in Created :
       LET old == deployment_status[d]
           new == deployment_status'[d]
           added == {i \in (Len(old.logs) + 1)..Len(new.logs) :
                       new.logs[i].message = new.message}
       IN /\ d \in DOMAIN deployment_status'
          /\ Len(new.logs) >= Len(old.logs)
          /\ SubSeq(new.logs, 1, Len(old.logs)) = old.logs
          /\ SubSeq(new.steps, 1, Len(old.steps)) = old.steps
          /\ new.status # old.status => Cardinality(added) = 1]_vars
C11_Witness ==
  \E d \in Created :
    /\ deployment_status[d].status = "completed"
    /\ Len(deployment_status[d].logs) >= 10
    /\ deployment_status[d].logs[Len(deployment_status[d].logs)].message
         = deployment_status[d].message

\* C12: a status or log read answers 404 exactly when its id was never
\* created by a deploy request; it creates no record, and a read of a
\* created id answers 200 with that record (its logs), also before the
\* task of the deployment has taken its first step.
C12_NotFoundIffNeverCreated ==
  [][response'.kind \in {"status", "logs"} =>
       /\ deployment_status' = deployment_status
       /\ response'.code \in {200, 404}
       /\ response'.code = 404 <=> response'.id \notin Created
       /\ response'.code = 404 => response'.body = NotFound
       /\ (response'.code = 200 /\ response'.kind = "status") =>
            response'.body = deployment_status[response'.id]
       /\ (response'.code = 200 /\ response'.kind = "logs") =>
            response'.body = [logs |-> deployment_status[response'.id].logs]]_vars
C12_Witness ==
  /\ response.kind = "status"
  /\ response.code = 200
  /\ response.id \in Created
  /\ pc[response.id] = "scheduled"
  /\ response.body.status = "initiated"

\* The log lines process_deployment writes right before it starts a step
StartMarkers ==
  <<"Parsing natural language requirements...",
    "Analyzing repository",
    "Determining optimal deployment strategy...",
    "Provisioning cloud infrastructure...",
    "Deploying application...">>
IsStartMarker(m) == \E i \in 1..Len(StartMarkers) : StartMarkers[i] = m
Started(d) == SelectSeq(deployment_status[d].steps, IsStartMarker)

\* C13: within one deployment the steps start in the order parsing,
\* analysis, decision, provisioning, deployment, each at most once; the
\* deployment backend is entered only after provision returned without an
\* error; once a step has raised no later step starts, and the profile and
\* the plan, once produced, are never replaced.
C13_StepsInFixedOrder ==
  [][\A d \in Created :
       /\ Len(Started(d)') <= Len(StartMarkers)
       /\ Started(d)' = SubSeq(StartMarkers, 1, Len(Started(d)'))
       /\ obs'[d].deploy_called =>
            /\ obs'[d].provisioned
            /\ obs'[d].provision_error = None
            /\ Len(Started(d)') = Len(StartMarkers)
       /\ (frame'[d].infrastructure # {} \/ pc'[d] = "tf_init") =>
            Len(Started(d)') >= 4
       /\ obs[d].raised # None =>
            /\ Started(d)' = Started(d)
            /\ pc'[d] = "done"
            /\ obs'[d] = obs[d]
       /\ frame[d].repo_analysis # NoProfile =>
            frame'[d].repo_analysis = frame[d].repo_analysis
       /\ frame[d].deployment_strategy # NoConfig =>
            frame'[d].deployment_strategy = frame[d].deployment_strategy]_vars
C13_Witness ==
  \E d \in Created :
    /\ Started(d) = StartMarkers
    /\ obs[d].deploy_called
    /\ obs[d].raised = "Command failed"
    /\ pc[d] = "done"

\* C14: for every requirement set (keys missing or with unknown values) and
\* every profile, determine_strategy returns a plan whose strategy is one of
\* vm, serverless, container, kubernetes, and whose provider and environment
\* are set.
C14_AlwaysAPlanOfAKnownStrategy ==
  (call.fn = "determine_strategy" /\ call.returned) =>
    /\ call.result.strategy \in StrategySet
    /\ call.result.cloud_provider # None
    /\ call.result.environment # None
    /\ call.result.application.language = call.args[2].language
C14_Witness ==
  /\ call.fn = "determine_strategy"
  /\ call.returned
  /\ "scaling" \notin DOMAIN call.args[1]
  /\ DictGet(call.args[1], "deployment_preference", None) = "docker"
  /\ call.args[2].language = "unknown"
  /\ call.result.strategy \in StrategySet

\* The score the engine computes for a strategy on the arguments of the call
ScoreOf(strategy) ==
  _calculate_strategy_score(strategy, call.args[1], call.args[2])
Preference == DictGet(call.args[1], "deployment_preference", None)

\* C15: a preference that is one of the four strategies is the strategy of
\* the plan whatever the scores are; with preference auto, absent or
\* unknown, the strategy of the plan has the highest computed score (on
\* equal scores, the first in the order vm, serverless, container,
\* kubernetes).
C15_PreferenceOverridesScores ==
  (call.fn = "determine_strategy" /\ call.returned) =>
    LET chosen == call.result.strategy
    IN IF Preference \in StrategySet
       THEN chosen = Preference
       ELSE /\ chosen \in StrategySet
            /\ \A i \in 1..Len(Strategies) :
                 /\ ~FLess(ScoreOf(chosen), ScoreOf(Strategies[i]))
                 /\ ScoreOf(Strategies[i]) = ScoreOf(chosen) =>
                      \E j \in 1..i : Strategies[j] = chosen
C15_Witness ==
  /\ call.fn = "determine_strategy"
  /\ call.returned
  /\ Preference = "kubernetes"
  /\ call.result.strategy = "kubernetes"
  /\ ScoreOf("kubernetes") = FZero
  /\ FLess(FZero, ScoreOf("serverless"))

\* A call on the example: a python flask profile without required services,
\* scaling minimal and preference auto
FlaskExample ==
  /\ call.fn = "determine_strategy"
  /\ call.returned
  /\ call.args[2].language = "python"
  /\ call.args[2].framework = "flask"
  /\ call.args[2].required_services = <<>>
  /\ DictGet(call.args[1], "scaling", None) = "minimal"
  /\ Preference = "auto"
StrictlyHighest(strategy) ==
  \A i \in 1..Len(Strategies) :
    Strategies[i] # strategy => FLess(ScoreOf(Strategies[i]), ScoreOf(strategy))

\* C16 (as stated): on the example the scores are, in tenths, serverless 12,
\* container 5 and vm 8, serverless is strictly the highest and is chosen.
C16_ExampleScoresAsStated ==
  FlaskExample =>
    /\ ScoreOf("serverless")[1] = 12
    /\ ScoreOf("container")[1] = 5
    /\ ScoreOf("vm")[1] = 8
    /\ StrictlyHighest("serverless")
    /\ call.result.strategy = "serverless"

\* C16 (amended): on the example the scores are, in tenths, serverless 12,
\* vm 8 and container 7 (10 when the repository has a Dockerfile): the
\* container score includes the framework bonus for flask; serverless is
\* strictly the highest of the four and is chosen.
C16_ExampleScores ==
  FlaskExample =>
    /\ ScoreOf("serverless") = <<12, 0>>
    /\ ScoreOf("container")[1] =
         (IF call.args[2].dockerfile_present THEN 10 ELSE 7)
    /\ ScoreOf("vm")[1] = 8
    /\ ScoreOf("kubernetes")[1] \in {0, 1}
    /\ StrictlyHighest("serverless")
    /\ call.result.strategy = "serverless"
C16_Witness ==
  /\ FlaskExample
  /\ ~call.args[2].dockerfile_present
  /\ ScoreOf("container")[1] = 7
  /\ call.result.strategy = "serverless"

\* What the checkout of an analyze_repository call shows
Analyzed == call.fn = "analyze_repository" /\ call.returned
SignalWeights(checkout) ==
  Term(checkout.language # "unknown", 30)
  + Term(checkout.framework # None, 20)
  + Term(checkout.manifest = "parsed", 20)
  + Term(checkout.entry_points # <<>>, 15)
  + Term(checkout.port # NonePort, 10)
  + Term(_generate_start_commands(checkout) # <<>>, 5)

\* C17: the confidence of every profile lies in [0, 1] and is the sum of
\* the weights of the signals present (language known 0.30, framework 0.20,
\* manifest parsed 0.20, entry point 0.15, port 0.10, start command 0.05),
\* capped at 1.0; with all six signals it is exactly 1.0.
C17_ConfidenceIsSumOfWeights ==
  Analyzed =>
    LET confidence == call.result.analysis_confidence
    IN /\ ~FLess(confidence, FZero)
       /\ ~FLess(COne, confidence)
       /\ confidence[1] = SignalWeights(call.args[1])
       /\ SignalWeights(call.args[1]) = 100 => confidence = COne

\* C19: a manifest that exists but cannot be parsed yields an empty
\* dependency set for it without aborting the analysis, and a confidence
\* lower than the same checkout gets with the manifest parsed.
C19_UnparsedManifestLowersConfidence ==
  (Analyzed /\ call.args[1].manifest = "unparsable") =>
    LET checkout == call.args[1]
        parsed == analyze_repository([checkout EXCEPT !.manifest = "parsed"])
    IN /\ call.result.dependencies[ManifestOf(checkout.language)] = <<>>
       /\ FLess(call.result.analysis_confidence, parsed.analysis_confidence)

\* C18: when the requirement extractor fails (the chat-completion call raises
\* or its reply cannot be parsed), the requirement set handed on to the
\* decision engine is the fixed default set (cloud_provider aws,
\* deployment_preference auto, environment production, scaling minimal)
\* whatever the description says. A missing deployment_preference is read as
\* the engine reads it, as "auto".
ExtractionFailed(d) == obs[d].reply \in {"error", "list"}
C18_FailedExtractionGivesDefaults ==
  \A d \in DOMAIN deployment_status :
    ExtractionFailed(d) =>
      LET requirements == frame[d].requirements
      IN /\ DictGet(requirements, "cloud_provider", None) = "aws"
         /\ DictGet(requirements, "deployment_preference", "auto") = "auto"
         /\ DictGet(requirements, "environment", None) = "production"
         /\ DictGet(requirements, "scaling", None) = "minimal"

\* the endpoints the deployment of a strategy reads from what provision returns
Endpoints(strategy) ==
  CASE strategy = "vm" -> {"instance_ip"}
    [] strategy = "serverless" -> {"lambda_function_name", "api_gateway_url"}
    [] strategy = "container" -> {"ecr_repository_url", "ecs_cluster_name"}
    [] OTHER -> {}

\* C20: provision ends in exactly one of two ways: it returns the connection
\* endpoints the deployment of the chosen strategy needs, or it raises; it
\* never returns normally with the endpoints missing.
C20_ProvisionReturnsEndpointsOrRaises ==
  \A d \in DOMAIN deployment_status :
    /\ ~(obs[d].provisioned /\ obs[d].provision_error # None)
    /\ obs[d].provisioned =>
         Endpoints(frame[d].deployment_strategy.strategy)
           \subseteq frame[d].infrastructure

\* A returned call of determine_strategy, and the profile it was given
Planned == call.fn = "determine_strategy" /\ call.returned
PlannedPort ==
  IF call.args[2].port # NonePort THEN call.args[2].port
  ELSE _get_default_port(call.args[2])

\* C21: the application port and the networking application_port of a plan
\* made from a profile of the analyzer are a number, never null: the detected
\* port when there is one, otherwise the default port of the framework,
\* otherwise that of the language, otherwise 8080.
C21_PortsAreNeverNull ==
  Planned =>
    /\ call.result.application.port # NonePort
    /\ call.result.networking.application_port # NonePort
    /\ call.result.application.port = PlannedPort
    /\ call.result.networking.application_port = PlannedPort

\* the services of the profile whose type the engine has a descriptor for
KnownServices == {"postgresql", "mysql", "mongodb", "redis"}
KnownRequired ==
  {i \in 1..Len(call.args[2].required_services) :
     call.args[2].required_services[i] \in KnownServices}

\* C22: the services section of the plan has exactly one descriptor per
\* required service of a known type (postgresql, mysql, mongodb, redis) and
\* none for an unknown type: the number of descriptors is the number of
\* required services of a known type.
C22_OneDescriptorPerKnownService ==
  Planned =>
    /\ Cardinality(DOMAIN call.result.services) = Cardinality(KnownRequired)
    /\ \A i \in KnownRequired :
         \E slot \in DOMAIN call.result.services :
           call.result.services[slot].type = call.args[2].required_services[i]

\* a url that is missing, or the placeholder of a service without a
\* checkable address, whatever the application port
PlaceholderOrMissing(url) == url = NoUrl \/ url.host = "ecs-service-url"

\* C23: whenever the endpoint to verify is a placeholder or a missing url,
\* verification issues no probe, counts as successful and a warning is
\* logged, for every application port.
C23_PlaceholderSkipsVerification ==
  (call.fn = "_verify_deployment" /\ call.returned
     /\ PlaceholderOrMissing(call.args[1])) =>
    /\ ~call.result.probed
    /\ call.result.value
    /\ call.result.warned

\* a returned call of _detect_language_and_framework on a walk with at least
\* one source file
Detected ==
  /\ call.fn = "_detect_language_and_framework"
  /\ call.returned
  /\ \E i \in 1..Len(Languages) : FileCount(call.args[1], Languages[i]) > 0

\* C24: the detected language has the highest file count, and of the
\* languages with the highest count it is the first in the order python,
\* nodejs, java, whatever the order in which the walk meets the files.
C24_TiesByDeclarationOrder ==
  Detected =>
    \E i \in 1..Len(Languages) :
      /\ call.result.language = Languages[i]
      /\ \A j \in 1..Len(Languages) :
           FileCount(call.args[1], Languages[j])
             <= FileCount(call.args[1], Languages[i])
      /\ \A j \in 1..(i - 1) :
           FileCount(call.args[1], Languages[j])
             < FileCount(call.args[1], Languages[i])

\* C25: for every strategy determine_strategy can return (vm, serverless,
\* container, kubernetes) deploy dispatches to a deployment routine: no
\* deployment with such a plan is rejected as an unsupported strategy.
C25_EveryStrategyIsDeployable ==
  \A d \in DOMAIN deployment_status :
    (obs[d].deploy_called /\ frame[d].deployment_strategy.strategy \in StrategySet)
      => obs[d].raised # "Unsupported deployment strategy"

\* the requirement set of d names a cloud provider other than aws
OtherProvider(d) ==
  DictGet(frame[d].requirements, "cloud_provider", "aws") # "aws"

ResultKeys == {"deployment_url", "infrastructure", "end_time"}

\* C27: in every state a reader can observe, a record whose status is
\* completed already carries deployment_url, infrastructure and end_time;
\* no response to a status request shows a completed record without them.
C27_CompletedCarriesResult ==
  /\ \A d \in DOMAIN deployment_status :
       deployment_status[d].status = "completed" =>
         ResultKeys \subseteq deployment_status[d].keys
  /\ (response.kind = "status" /\ response.code = 200
        /\ response.body.status = "completed") =>
       ResultKeys \subseteq response.body.keys
C27_Witness ==
  /\ response.kind = "status"
  /\ response.code = 200
  /\ response.body.status = "completed"
  /\ response.body.deployment_url.host = "instance_ip"
  /\ response.body.infrastructure # {}

\* C28: every record in a terminal state, completed or failed, has an
\* end_time, and a record in a non-terminal state has none.
C28_EndTimeIffTerminal ==
  \A d \in DOMAIN deployment_status :
    deployment_status[d].status \in Terminal
      <=> "end_time" \in deployment_status[d].keys

\* the messages update_deployment_status is called with (main.py 84, 123-127,
\* 136); every other log entry is written by log_step alone
IsUpdateMessage(m) ==
  \/ m \in {"Starting deployment analysis...", "Deployment successful!"}
  \/ \E d \in Ids : m = "Deployment failed: " \o obs[d].raised

\* C29: in every record logs and steps have the same length and the i-th
\* step is the message of the i-th log entry; when the record has a message
\* field, it is the message of the log entry the latest status update
\* appended.
C29_StepsMirrorLogs ==
  \A d \in DOMAIN deployment_status :
    LET record == deployment_status[d]
    IN /\ Len(record.logs) = Len(record.steps)
       /\ \A i \in 1..Len(record.logs) : record.steps[i] = record.logs[i].message
       /\ "message" \in record.keys =>
            \E i \in 1..Len(record.logs) :
              /\ IsUpdateMessage(record.logs[i].message)
              /\ \A j \in (i + 1)..Len(record.logs) :
                   ~IsUpdateMessage(record.logs[j].message)
              /\ record.logs[i].message = record.message
C29_Witness ==
  \E d \in DOMAIN deployment_status :
    LET record == deployment_status[d]
    IN /\ record.status = "processing"
       /\ record.message = "Starting deployment analysis..."
       /\ Len(record.logs) >= 8
       /\ record.logs[1].message = record.message
       /\ record.steps[Len(record.steps)] # record.message

\* the log of the deployment the client follows (empty before it exists)
FollowedLog ==
  IF call.args[1] \in DOMAIN deployment_status
  THEN deployment_status[call.args[1]].logs ELSE <<>>
ObservedTerminal ==
  /\ call.fn = "follow_deployment"
  /\ call.returned
  /\ ~call.raised
  /\ call.current_status \in Terminal

\* C30: a client following a deployment, interleaved in any way with the
\* pipeline, prints every log entry once and in log order (what it has
\* printed is always a prefix of the log); when it returns on reading
\* completed or failed it has printed the whole log, and it returns True
\* only for completed.
C30_FollowerPrintsWholeLogOnce ==
  call.fn = "follow_deployment" =>
    /\ Len(call.printed) <= Len(FollowedLog)
    /\ call.printed = SubSeq(FollowedLog, 1, Len(call.printed))
    /\ ObservedTerminal =>
         /\ call.printed = FollowedLog
         /\ call.result <=> call.current_status = "completed"
    /\ (call.returned /\ call.result) =>
         /\ call.current_status = "completed"
         /\ deployment_status[call.args[1]].status = "completed"
C30_Witness ==
  /\ ObservedTerminal
  /\ call.result
  /\ call.resumed
  /\ Len(call.printed) >= 10
  /\ call.printed = FollowedLog
====
